---- MODULE Spec2Model ----
(***************************************************************************)
(* Whister: the bidding state machine of BiddingService                    *)
(* (backend/app/services/bidding_service.py) over the Redis hashes         *)
(* room:{code}:round and room:{code}:contracts of one room.                *)
(***************************************************************************)
EXTENDS Integers, FiniteSets, Sequences, TLC

\* round:     the hash room:{code}:round
\* contracts: the hash room:{code}:contracts (user_id -> bid_amount)
\* last:      the operation applied last, the user it was called for and the
\*            (success, error_message) it returned; outbid tells whether an accepted trump bid
\*            replaced a standing bid
\* calc:      the pure function of the services applied last, with its
\*            arguments and its result
\* reqs:      the bidding requests being processed concurrently, each with
\*            the round data it has read and its position in its method
\* tricks:    the play tracking of the round: tricks won per seat, total
\*            tricks played and the phase they drive
\* rooms:     per room code, the hash room:{code} (admin_id, status)
\* players:   per room code, the hash room:{code}:players (seat -> PlayerInfo)
\* db_players: per room code, the game_players rows of the room's game
\* games:     per room code, the games row (status, current_round_number)
\* reconnect: per user, the hash reconnect:{user_id} (room_code, seat_position)
\* conn:      per user, the room code tracked for the user's socket
\*            (ws:socket:{sid} and ws:user:{user_id})
VARIABLES round, contracts, last, calc, reqs, tricks, rooms, players, db_players, games, reconnect, conn

\* The state of rooms and seats.
roomVars == <<rooms, players, db_players, games, reconnect, conn>>

vars == <<round, contracts, last, calc, reqs, tricks, roomVars>>

(* ---------------------------------------------------------------------- *)
(* Bounds and input sets                                                   *)
(* ---------------------------------------------------------------------- *)

\* consecutive_passes is an unbounded integer in the code; the model stops
\* accepting passes once the counter has reached this cap.
MaxPasses == 5

\* The four seated players in seat order (seat i holds Seated[i+1]).
Seated == <<"u0", "u1", "u2", "u3">>

\* The users who issue requests: the player in seat 0, the player in seat 1
\* (the players in seats 2 and 3 are treated by the code exactly as the one
\* in seat 1) and the user who is not seated.
Callers == {"u0", "u1", "x"}

\* Suits offered to place_trump_bid: the lowest and the highest.
BidSuits == {"clubs", "no_trump"}

\* Winners offered to set_trump.
TrumpWinners == {"u0", "u1"}

\* Amounts offered to place_trump_bid: below every minimum, the minimum
\* progression's low end, the top of the range, and above the range.
TrumpAmounts == {4, 5, 6, 13, 14}

\* Amounts offered to place_contract_bid.
ContractAmounts == {-1, 4, 13}

\* Arguments offered to set_trump, which takes them from its caller.
TrumpWinBids == {5, 13}

TrumpWinSuits == {"hearts"}

(* ---------------------------------------------------------------------- *)
(* Enumerations and constants of the program                               *)
(* ---------------------------------------------------------------------- *)

TrumpSuit == {"clubs", "diamonds", "hearts", "spades", "no_trump"}

\* A missing / null field of the round hash.
None == "None"

\* highest_bid is stored as a JSON string; a missing field and the empty
\* string written by handle_frisch and set_trump are both falsy when read.
NoBid == [player_id |-> None, amount |-> 0, suit |-> None]

\* SUIT_ORDER with the ranks of hearts and spades exchanged.
SUIT_ORDER_HeartsOverSpades(s) ==
    CASE s = "clubs"    -> 0
      [] s = "diamonds" -> 1
      [] s = "hearts"   -> 3
      [] s = "spades"   -> 2
      [] s = "no_trump" -> 4
      [] OTHER          -> -1

SUIT_ORDER(s) ==
    CASE s = "clubs"    -> 0
      [] s = "diamonds" -> 1
      [] s = "hearts"   -> 2
      [] s = "spades"   -> 3
      [] s = "no_trump" -> 4
      [] OTHER          -> -1

MINIMUM_BID_PROGRESSION == <<5, 6, 7, 8>>

\* get_minimum_bid that clamps to the entry before the last one.
get_minimum_bid_ClampLow(frisch_count) ==
    LET n == IF frisch_count >= Len(MINIMUM_BID_PROGRESSION)
             THEN Len(MINIMUM_BID_PROGRESSION) - 2
             ELSE frisch_count
    IN  MINIMUM_BID_PROGRESSION[n + 1]

get_minimum_bid(frisch_count) ==
    LET n == IF frisch_count >= Len(MINIMUM_BID_PROGRESSION)
             THEN Len(MINIMUM_BID_PROGRESSION) - 1
             ELSE frisch_count
    IN  MINIMUM_BID_PROGRESSION[n + 1]

Ok == "ok"

\* validate_trump_bid with the amount comparison relaxed from > to >=.
validate_trump_bid_EqualAmount(new_bid_amount, new_bid_suit, current_highest, minimum_bid) ==
    IF new_bid_amount < minimum_bid THEN "Bid must be at least minimum"
    ELSE IF new_bid_amount > 13 THEN "Bid cannot exceed 13"
    ELSE IF current_highest = NoBid THEN Ok
    ELSE IF new_bid_amount >= current_highest.amount THEN Ok
    ELSE "Must bid at least current highest"

\* validate_trump_bid: the error message, or Ok when the bid is valid.
validate_trump_bid(new_bid_amount, new_bid_suit, current_highest, minimum_bid) ==
    IF new_bid_amount < minimum_bid THEN "Bid must be at least minimum"
    ELSE IF new_bid_amount > 13 THEN "Bid cannot exceed 13"
    ELSE IF current_highest = NoBid THEN Ok
    ELSE IF new_bid_amount > current_highest.amount THEN Ok
    ELSE IF new_bid_amount = current_highest.amount
         THEN IF current_highest.suit = None THEN "Cannot bid without a suit"
              ELSE IF SUIT_ORDER(new_bid_suit) > SUIT_ORDER(current_highest.suit)
                   THEN Ok
                   ELSE "Must bid higher or same amount with higher suit"
    ELSE "Must bid at least current highest"

\* validate_contract_bid that applies the sum rule to every bidder.
validate_contract_bid_SumForAll(bid_amount, current_sum, is_last_bidder, is_trump_winner, trump_winning_bid) ==
    IF ~(0 <= bid_amount /\ bid_amount <= 13)
    THEN "Contract must be between 0 and 13"
    ELSE IF is_trump_winner /\ bid_amount < trump_winning_bid
    THEN "Trump winner must bid at least winning bid"
    ELSE IF current_sum + bid_amount = 13
    THEN "Last bidder cannot make the sum equal 13"
    ELSE Ok

\* validate_contract_bid that checks the sum rule before the trump minimum.
validate_contract_bid_SumFirst(bid_amount, current_sum, is_last_bidder, is_trump_winner, trump_winning_bid) ==
    IF ~(0 <= bid_amount /\ bid_amount <= 13)
    THEN "Contract must be between 0 and 13"
    ELSE IF is_last_bidder /\ current_sum + bid_amount = 13
    THEN "Last bidder cannot make the sum equal 13"
    ELSE IF is_trump_winner /\ bid_amount < trump_winning_bid
    THEN "Trump winner must bid at least winning bid"
    ELSE Ok

\* ScoringService.validate_contract_bid: the error message, or Ok.
validate_contract_bid(bid_amount, current_sum, is_last_bidder, is_trump_winner, trump_winning_bid) ==
    IF ~(0 <= bid_amount /\ bid_amount <= 13)
    THEN "Contract must be between 0 and 13"
    ELSE IF is_trump_winner /\ bid_amount < trump_winning_bid
    THEN "Trump winner must bid at least winning bid"
    ELSE IF is_last_bidder /\ current_sum + bid_amount = 13
    THEN "Last bidder cannot make the sum equal 13"
    ELSE Ok

\* sum(contracts) of a list
RECURSIVE SumSeq(_)
SumSeq(q) == IF q = << >> THEN 0 ELSE Head(q) + SumSeq(Tail(q))

\* determine_game_type that lets a sum of 13 through as an under game.
determine_game_type_No13Check(contract_list) ==
    IF Len(contract_list) # 4 THEN "ValueError: expected 4 contracts"
    ELSE IF SumSeq(contract_list) > 13 THEN "over" ELSE "under"

\* ScoringService.determine_game_type: "over", "under", or the ValueError
\* it raises.
determine_game_type(contract_list) ==
    IF Len(contract_list) # 4 THEN "ValueError: expected 4 contracts"
    ELSE LET total == SumSeq(contract_list)
         IN  IF total = 13 THEN "ValueError: sum equals 13"
             ELSE IF total > 13 THEN "over" ELSE "under"

\* abs()
Abs(n) == IF n < 0 THEN -n ELSE n

\* calculate_round_score whose failed-contract deviation is not absolute.
calculate_round_score_SignedDeviation(contract_bid, tricks_won, game_type) ==
    LET is_over == game_type = "over"
    IN  IF contract_bid = 0
        THEN IF tricks_won = 0 THEN (IF is_over THEN 25 ELSE 50)
             ELSE IF tricks_won = 1 THEN -50
             ELSE -50 + (tricks_won - 1) * 10
        ELSE IF tricks_won = contract_bid
             THEN (contract_bid * contract_bid) + 10
             ELSE (contract_bid - tricks_won) * (-10)

\* calculate_round_score whose failed zero bid counts every trick won.
calculate_round_score_ZeroPerTrick(contract_bid, tricks_won, game_type) ==
    LET is_over == game_type = "over"
    IN  IF contract_bid = 0
        THEN IF tricks_won = 0 THEN (IF is_over THEN 25 ELSE 50)
             ELSE IF tricks_won = 1 THEN -50
             ELSE -50 + tricks_won * 10
        ELSE IF tricks_won = contract_bid
             THEN (contract_bid * contract_bid) + 10
             ELSE Abs(tricks_won - contract_bid) * (-10)

\* calculate_round_score whose made contract scores bid^2 without the bonus.
calculate_round_score_NoBonus(contract_bid, tricks_won, game_type) ==
    LET is_over == game_type = "over"
    IN  IF contract_bid = 0
        THEN IF tricks_won = 0 THEN (IF is_over THEN 25 ELSE 50)
             ELSE IF tricks_won = 1 THEN -50
             ELSE -50 + (tricks_won - 1) * 10
        ELSE IF tricks_won = contract_bid
             THEN contract_bid * contract_bid
             ELSE Abs(tricks_won - contract_bid) * (-10)

\* calculate_round_score whose zero bid failed by one trick is halved in an
\* over game.
calculate_round_score_OverFailedZero(contract_bid, tricks_won, game_type) ==
    LET is_over == game_type = "over"
    IN  IF contract_bid = 0
        THEN IF tricks_won = 0 THEN (IF is_over THEN 25 ELSE 50)
             ELSE IF tricks_won = 1 THEN (IF is_over THEN -25 ELSE -50)
             ELSE -50 + (tricks_won - 1) * 10
        ELSE IF tricks_won = contract_bid
             THEN (contract_bid * contract_bid) + 10
             ELSE Abs(tricks_won - contract_bid) * (-10)

\* ScoringService.calculate_round_score
calculate_round_score(contract_bid, tricks_won, game_type) ==
    LET is_over == game_type = "over"
    IN  IF contract_bid = 0
        THEN IF tricks_won = 0 THEN (IF is_over THEN 25 ELSE 50)
             ELSE IF tricks_won = 1 THEN -50
             ELSE -50 + (tricks_won - 1) * 10
        ELSE IF tricks_won = contract_bid
             THEN (contract_bid * contract_bid) + 10
             ELSE Abs(tricks_won - contract_bid) * (-10)

(* ---------------------------------------------------------------------- *)
(* State                                                                   *)
(* ---------------------------------------------------------------------- *)

\* The round hash as read by hgetall: a field that was never written reads
\* as its .get() default (None, 5, 0).
NoRound ==
    [exists             |-> FALSE,
     current_bidder_id  |-> None,
     highest_bid        |-> NoBid,
     minimum_bid        |-> 5,
     consecutive_passes |-> 0,
     frisch_count       |-> 0,
     phase              |-> None,
     trump_suit         |-> None,
     trump_winner_id    |-> None,
     trump_winning_bid  |-> 0]

\* A round as it stands when trump bidding begins (BiddingState defaults).
BiddingState(first_bidder_id) ==
    [NoRound EXCEPT !.exists = TRUE,
                    !.phase = "trump_bidding",
                    !.current_bidder_id = first_bidder_id]

NoContracts == [u \in {} |-> 0]

\* get_contract_sum
RECURSIVE SumOver(_, _)
SumOver(f, S) ==
    IF S = {} THEN 0
    ELSE LET u == CHOOSE v \in S : TRUE IN f[u] + SumOver(f, S \ {u})

get_contract_sum == SumOver(contracts, DOMAIN contracts)

\* No pure function has been applied yet.
NoCalc == [fn |-> "none"]

\* No request is in flight.
NoReqs == << >>

\* The seats of a room.
Seats == 0 .. 3

\* A round has 13 tricks.
TricksPerRound == 13

\* No trick has been played.
NoTricks == [tricks_won |-> [seat \in Seats |-> 0], total_tricks_played |-> 0, phase |-> "playing"]

\* No room has been created and nobody is connected.
NoRoomState ==
    /\ rooms = << >>
    /\ players = << >>
    /\ db_players = << >>
    /\ games = << >>
    /\ reconnect = << >>
    /\ conn = << >>

NoLast == [op |-> "init", user |-> None, err |-> Ok, outbid |-> FALSE]

Init ==
    /\ round \in {NoRound, BiddingState(Seated[1]), BiddingState(None)}
    /\ contracts = NoContracts
    /\ last = NoLast
    /\ calc = NoCalc
    /\ reqs = NoReqs
    /\ tricks = NoTricks
    /\ NoRoomState

(* ---------------------------------------------------------------------- *)
(* Operations of BiddingService                                            *)
(* ---------------------------------------------------------------------- *)

\* place_trump_bid that writes highest_bid but not consecutive_passes.
place_trump_bid_KeepPasses(user_id, bid_amount, bid_suit) ==
    LET err == IF ~round.exists THEN "Round not found"
               ELSE IF round.current_bidder_id = None
                       \/ round.current_bidder_id # user_id
                    THEN "Not your turn"
               ELSE validate_trump_bid(bid_amount, bid_suit,
                                       round.highest_bid, round.minimum_bid)
    IN  /\ last' = [op |-> "place_trump_bid", user |-> user_id, err |-> err,
                    outbid |-> (err = Ok /\ round.highest_bid # NoBid)]
        /\ round' = IF err = Ok
                    THEN [round EXCEPT
                            !.highest_bid = [player_id |-> user_id,
                                             amount    |-> bid_amount,
                                             suit      |-> bid_suit]]
                    ELSE round
        /\ UNCHANGED <<contracts, calc, reqs, tricks, roomVars>>

place_trump_bid(user_id, bid_amount, bid_suit) ==
    LET err == IF ~round.exists THEN "Round not found"
               ELSE IF round.current_bidder_id = None
                       \/ round.current_bidder_id # user_id
                    THEN "Not your turn"
               ELSE validate_trump_bid(bid_amount, bid_suit,
                                       round.highest_bid, round.minimum_bid)
    IN  /\ last' = [op |-> "place_trump_bid", user |-> user_id, err |-> err,
                    outbid |-> (err = Ok /\ round.highest_bid # NoBid)]
        /\ round' = IF err = Ok
                    THEN [round EXCEPT
                            !.highest_bid = [player_id |-> user_id,
                                             amount    |-> bid_amount,
                                             suit      |-> bid_suit],
                            !.consecutive_passes = 0]
                    ELSE round
        /\ UNCHANGED <<contracts, calc, reqs, tricks, roomVars>>

\* pass_trump_bid that also writes an empty highest_bid.
pass_trump_bid_ClearBid(user_id) ==
    LET err == IF ~round.exists THEN "Round not found"
               ELSE IF round.current_bidder_id = None
                       \/ round.current_bidder_id # user_id
                    THEN "Not your turn"
               ELSE Ok
    IN  /\ (err = Ok => round.consecutive_passes < MaxPasses)
        /\ last' = [op |-> "pass_trump_bid", user |-> user_id, err |-> err, outbid |-> FALSE]
        /\ round' = IF err = Ok
                    THEN [round EXCEPT
                            !.consecutive_passes = round.consecutive_passes + 1,
                            !.highest_bid = NoBid]
                    ELSE round
        /\ UNCHANGED <<contracts, calc, reqs, tricks, roomVars>>

pass_trump_bid(user_id) ==
    LET err == IF ~round.exists THEN "Round not found"
               ELSE IF round.current_bidder_id = None
                       \/ round.current_bidder_id # user_id
                    THEN "Not your turn"
               ELSE Ok
    IN  /\ (err = Ok => round.consecutive_passes < MaxPasses)
        /\ last' = [op |-> "pass_trump_bid", user |-> user_id, err |-> err, outbid |-> FALSE]
        /\ round' = IF err = Ok
                    THEN [round EXCEPT
                            !.consecutive_passes = round.consecutive_passes + 1]
                    ELSE round
        /\ UNCHANGED <<contracts, calc, reqs, tricks, roomVars>>

\* handle_frisch that takes the minimum bid of the frisch count it read.
handle_frisch_StaleMinimum ==
    LET err == IF ~round.exists THEN "Round not found"
               ELSE IF round.frisch_count >= 3
                    THEN "Maximum frisch rounds (3) reached"
               ELSE Ok
    IN  /\ last' = [op |-> "handle_frisch", user |-> None, err |-> err, outbid |-> FALSE]
        /\ round' = IF err = Ok
                    THEN [round EXCEPT
                            !.frisch_count = round.frisch_count + 1,
                            !.minimum_bid = get_minimum_bid(round.frisch_count),
                            !.highest_bid = NoBid,
                            !.consecutive_passes = 0]
                    ELSE round
        /\ UNCHANGED <<contracts, calc, reqs, tricks, roomVars>>

\* handle_frisch that leaves the standing bid in place.
handle_frisch_KeepBid ==
    LET err == IF ~round.exists THEN "Round not found"
               ELSE IF round.frisch_count >= 3
                    THEN "Maximum frisch rounds (3) reached"
               ELSE Ok
    IN  /\ last' = [op |-> "handle_frisch", user |-> None, err |-> err, outbid |-> FALSE]
        /\ round' = IF err = Ok
                    THEN [round EXCEPT
                            !.frisch_count = round.frisch_count + 1,
                            !.minimum_bid = get_minimum_bid(round.frisch_count + 1),
                            !.consecutive_passes = 0]
                    ELSE round
        /\ UNCHANGED <<contracts, calc, reqs, tricks, roomVars>>

\* handle_frisch that refuses only above 3 frisches.
handle_frisch_OneMore ==
    LET err == IF ~round.exists THEN "Round not found"
               ELSE IF round.frisch_count > 3
                    THEN "Maximum frisch rounds (3) reached"
               ELSE Ok
    IN  /\ last' = [op |-> "handle_frisch", user |-> None, err |-> err, outbid |-> FALSE]
        /\ round' = IF err = Ok
                    THEN [round EXCEPT
                            !.frisch_count = round.frisch_count + 1,
                            !.minimum_bid = get_minimum_bid(round.frisch_count + 1),
                            !.highest_bid = NoBid,
                            !.consecutive_passes = 0]
                    ELSE round
        /\ UNCHANGED <<contracts, calc, reqs, tricks, roomVars>>

handle_frisch ==
    LET err == IF ~round.exists THEN "Round not found"
               ELSE IF round.frisch_count >= 3
                    THEN "Maximum frisch rounds (3) reached"
               ELSE Ok
    IN  /\ last' = [op |-> "handle_frisch", user |-> None, err |-> err, outbid |-> FALSE]
        /\ round' = IF err = Ok
                    THEN [round EXCEPT
                            !.frisch_count = round.frisch_count + 1,
                            !.minimum_bid = get_minimum_bid(round.frisch_count + 1),
                            !.highest_bid = NoBid,
                            !.consecutive_passes = 0]
                    ELSE round
        /\ UNCHANGED <<contracts, calc, reqs, tricks, roomVars>>

set_trump(trump_winner_id, trump_suit, trump_winning_bid) ==
    /\ last' = [op |-> "set_trump", user |-> None, err |-> Ok, outbid |-> FALSE]
    /\ round' = [round EXCEPT
                    !.exists = TRUE,
                    !.trump_suit = trump_suit,
                    !.trump_winner_id = trump_winner_id,
                    !.trump_winning_bid = trump_winning_bid,
                    !.phase = "contract_bidding",
                    !.highest_bid = NoBid,
                    !.consecutive_passes = 0]
    /\ UNCHANGED <<contracts, calc, reqs, tricks, roomVars>>

\* place_contract_bid without the current-bidder check.
place_contract_bid_NoTurnCheck(user_id, bid_amount) ==
    LET err == IF ~round.exists THEN "Round not found" ELSE Ok
    IN  /\ last' = [op |-> "place_contract_bid", user |-> user_id, err |-> err, outbid |-> FALSE]
        /\ contracts' = IF err = Ok
                        THEN (user_id :> bid_amount) @@ contracts
                        ELSE contracts
        /\ UNCHANGED <<round, calc, reqs, tricks, roomVars>>

place_contract_bid(user_id, bid_amount) ==
    LET err == IF ~round.exists THEN "Round not found"
               ELSE IF round.current_bidder_id = None
                       \/ round.current_bidder_id # user_id
                    THEN "Not your turn"
               ELSE Ok
    IN  /\ last' = [op |-> "place_contract_bid", user |-> user_id, err |-> err, outbid |-> FALSE]
        /\ contracts' = IF err = Ok
                        THEN (user_id :> bid_amount) @@ contracts
                        ELSE contracts
        /\ UNCHANGED <<round, calc, reqs, tricks, roomVars>>

clear_contracts ==
    /\ last' = [op |-> "clear_contracts", user |-> None, err |-> Ok, outbid |-> FALSE]
    /\ contracts' = NoContracts
    /\ UNCHANGED <<round, calc, reqs, tricks, roomVars>>

Next ==
    \/ \E u \in Callers, a \in TrumpAmounts, s \in BidSuits : place_trump_bid(u, a, s)
    \/ \E u \in Callers : pass_trump_bid(u)
    \/ handle_frisch
    \/ \E w \in TrumpWinners, s \in TrumpWinSuits, b \in TrumpWinBids : set_trump(w, s, b)
    \/ \E u \in Callers, a \in ContractAmounts : place_contract_bid(u, a)
    \/ clear_contracts

Spec == Init /\ [][Next]_vars

(* ---------------------------------------------------------------------- *)
(* The pure functions of ScoringService and BiddingService, applied to     *)
(* arguments drawn from bounded sets                                       *)
(* ---------------------------------------------------------------------- *)

\* get_minimum_bid is applied to frisch counts 0..MaxFrischArg.
MaxFrischArg == 6

\* Contract bids: the whole range 0..13 and one value on each side of it.
ContractBidArgs == (-1) .. 14

CurrentSumArgs == 0 .. 14

TrumpWinningBidArgs == {0, 5, 7, 13}

\* Trump bids: the whole range 5..13 and one value on each side of it.
TrumpBidArgs == 4 .. 14

MinimumBidArgs == {MINIMUM_BID_PROGRESSION[i] : i \in 1..Len(MINIMUM_BID_PROGRESSION)}

\* Standing bids: none, or a bid placed by place_trump_bid.
HighestBidArgs ==
    {NoBid} \cup [player_id : {"u1"}, amount : {5, 6, 13}, suit : TrumpSuit]

\* Contract lists: four bids (and three, which determine_game_type refuses).
ContractListArgs == [1..4 -> {0, 1, 3, 4, 5, 13}] \cup [1..3 -> {0, 4, 13}]

TricksArgs == 0 .. 13

GameType == {"over", "under"}

\* Tricks won by the four seats in the scored rounds of test_gameplay.py.
TricksWonArgs == {<<3, 2, 3, 5>>, <<5, 4, 5, 1>>, <<3, 3, 3, 4>>, <<0, 0, 0, 13>>}

\* Each behaviour applies one function once to one choice of arguments.
InitPure ==
    /\ round = NoRound
    /\ contracts = NoContracts
    /\ last = NoLast
    /\ calc = NoCalc
    /\ reqs = NoReqs
    /\ tricks = NoTricks
    /\ NoRoomState

Call_validate_contract_bid ==
    /\ calc = NoCalc
    /\ \E a \in ContractBidArgs, cs \in CurrentSumArgs, lb \in BOOLEAN,
          tw \in BOOLEAN, twb \in TrumpWinningBidArgs :
         calc' = [fn |-> "validate_contract_bid",
                  bid_amount |-> a, current_sum |-> cs, is_last_bidder |-> lb,
                  is_trump_winner |-> tw, trump_winning_bid |-> twb,
                  result |-> validate_contract_bid(a, cs, lb, tw, twb)]
    /\ UNCHANGED <<round, contracts, last, reqs, tricks, roomVars>>

Call_validate_trump_bid ==
    /\ calc = NoCalc
    /\ \E a \in TrumpBidArgs, s \in TrumpSuit, h \in HighestBidArgs,
          m \in MinimumBidArgs :
         calc' = [fn |-> "validate_trump_bid",
                  new_bid_amount |-> a, new_bid_suit |-> s,
                  current_highest |-> h, minimum_bid |-> m,
                  result |-> validate_trump_bid(a, s, h, m)]
    /\ UNCHANGED <<round, contracts, last, reqs, tricks, roomVars>>

Call_get_minimum_bid ==
    /\ calc = NoCalc
    /\ \E n \in 0..MaxFrischArg :
         calc' = [fn |-> "get_minimum_bid", frisch_count |-> n,
                  result |-> get_minimum_bid(n)]
    /\ UNCHANGED <<round, contracts, last, reqs, tricks, roomVars>>

Call_determine_game_type ==
    /\ calc = NoCalc
    /\ \E c \in ContractListArgs :
         calc' = [fn |-> "determine_game_type", contract_list |-> c,
                  result |-> determine_game_type(c)]
    /\ UNCHANGED <<round, contracts, last, reqs, tricks, roomVars>>

Call_calculate_round_score ==
    /\ calc = NoCalc
    /\ \E b \in 0..13, t \in TricksArgs, g \in GameType :
         calc' = [fn |-> "calculate_round_score",
                  contract_bid |-> b, tricks_won |-> t, game_type |-> g,
                  result |-> calculate_round_score(b, t, g)]
    /\ UNCHANGED <<round, contracts, last, reqs, tricks, roomVars>>

\* A whole round is scored: the game type of the four contracts, then the
\* score of every seat (nothing is scored when determine_game_type raises).
ScoreRound ==
    /\ calc = NoCalc
    /\ \E c \in ContractListArgs, t \in TricksWonArgs :
         LET g == determine_game_type(c)
         IN  /\ Len(c) = 4
             /\ calc' = [fn |-> "score_round", contract_list |-> c,
                         tricks_won |-> t, game_type |-> g,
                         scores |-> IF g \in GameType
                                    THEN [i \in 1..4 |->
                                            calculate_round_score(c[i], t[i], g)]
                                    ELSE << >>]
    /\ UNCHANGED <<round, contracts, last, reqs, tricks, roomVars>>

NextPure ==
    \/ Call_validate_contract_bid
    \/ Call_validate_trump_bid
    \/ Call_get_minimum_bid
    \/ Call_determine_game_type
    \/ Call_calculate_round_score
    \/ ScoreRound

SpecPure == InitPure /\ [][NextPure]_vars

(* ---------------------------------------------------------------------- *)
(* Concurrent trump-bidding requests on one room                           *)
(*                                                                         *)
(* place_trump_bid and pass_trump_bid are coroutines: each awaits hgetall, *)
(* decides on the data it read, and awaits hset.  Two requests interleave  *)
(* at these two awaits; no lock or transaction surrounds them.             *)
(* ---------------------------------------------------------------------- *)

RaceUsers == {"u0", "u1"}

RaceAmounts == {5, 6}

RaceSuits == {"clubs", "hearts"}

\* A request that has not started: it has read nothing and returned nothing.
Request(op, user_id, bid_amount, bid_suit) == [op |-> op, user |-> user_id, amount |-> bid_amount, suit |-> bid_suit, pc |-> "start", round_data |-> NoRound, result |-> None]

RaceRequests ==
    {Request("pass_trump_bid", u, 0, None) : u \in RaceUsers}
      \cup {Request("place_trump_bid", u, a, s) :
              u \in RaceUsers, a \in RaceAmounts, s \in RaceSuits}

\* The rounds the requests start from: none, a fresh one whose bidder is the
\* first seat, and that one after the bidder's bid of 5 clubs.
RaceRounds ==
    {NoRound,
     BiddingState(Seated[1]),
     [BiddingState(Seated[1]) EXCEPT
        !.highest_bid = [player_id |-> Seated[1], amount |-> 5,
                         suit |-> "clubs"]]}

InitRace ==
    /\ round \in RaceRounds
    /\ contracts = NoContracts
    /\ last = NoLast
    /\ calc = NoCalc
    /\ reqs \in [1..2 -> RaceRequests]
    /\ tricks = NoTricks
    /\ NoRoomState

\* place_trump_bid up to its hset, without the turn check.
place_trump_bid_read_NoTurnCheck(i) ==
    /\ i \in DOMAIN reqs
    /\ reqs[i].op = "place_trump_bid"
    /\ reqs[i].pc = "start"
    /\ LET r   == reqs[i]
           err == IF ~round.exists THEN "Round not found"
                  ELSE validate_trump_bid(r.amount, r.suit,
                                          round.highest_bid, round.minimum_bid)
       IN  reqs' = [reqs EXCEPT ![i] =
                      [r EXCEPT !.round_data = round,
                                !.pc = IF err = Ok THEN "validated" ELSE "done",
                                !.result = IF err = Ok THEN None ELSE err]]
    /\ UNCHANGED <<round, contracts, last, calc, tricks, roomVars>>

\* place_trump_bid up to its hset: hgetall, then the checks on the data read;
\* a refused request returns here.
place_trump_bid_read(i) ==
    /\ i \in DOMAIN reqs
    /\ reqs[i].op = "place_trump_bid"
    /\ reqs[i].pc = "start"
    /\ LET r   == reqs[i]
           err == IF ~round.exists THEN "Round not found"
                  ELSE IF round.current_bidder_id = None
                          \/ round.current_bidder_id # r.user
                       THEN "Not your turn"
                  ELSE validate_trump_bid(r.amount, r.suit,
                                          round.highest_bid, round.minimum_bid)
       IN  reqs' = [reqs EXCEPT ![i] =
                      [r EXCEPT !.round_data = round,
                                !.pc = IF err = Ok THEN "validated" ELSE "done",
                                !.result = IF err = Ok THEN None ELSE err]]
    /\ UNCHANGED <<round, contracts, last, calc, tricks, roomVars>>

\* place_trump_bid from its hset: writes highest_bid and consecutive_passes.
place_trump_bid_write(i) ==
    /\ i \in DOMAIN reqs
    /\ reqs[i].op = "place_trump_bid"
    /\ reqs[i].pc = "validated"
    /\ round' = [round EXCEPT
                   !.highest_bid = [player_id |-> reqs[i].user,
                                    amount    |-> reqs[i].amount,
                                    suit      |-> reqs[i].suit],
                   !.consecutive_passes = 0]
    /\ reqs' = [reqs EXCEPT ![i] = [reqs[i] EXCEPT !.pc = "done", !.result = Ok]]
    /\ UNCHANGED <<contracts, last, calc, tricks, roomVars>>

\* pass_trump_bid up to its hset: hgetall, then the checks on the data read.
pass_trump_bid_read(i) ==
    /\ i \in DOMAIN reqs
    /\ reqs[i].op = "pass_trump_bid"
    /\ reqs[i].pc = "start"
    /\ LET r   == reqs[i]
           err == IF ~round.exists THEN "Round not found"
                  ELSE IF round.current_bidder_id = None
                          \/ round.current_bidder_id # r.user
                       THEN "Not your turn"
                  ELSE Ok
       IN  reqs' = [reqs EXCEPT ![i] =
                      [r EXCEPT !.round_data = round,
                                !.pc = IF err = Ok THEN "validated" ELSE "done",
                                !.result = IF err = Ok THEN None ELSE err]]
    /\ UNCHANGED <<round, contracts, last, calc, tricks, roomVars>>

\* pass_trump_bid from its hset: writes the passes it read plus one.
pass_trump_bid_write(i) ==
    /\ i \in DOMAIN reqs
    /\ reqs[i].op = "pass_trump_bid"
    /\ reqs[i].pc = "validated"
    /\ round' = [round EXCEPT
                   !.consecutive_passes =
                       reqs[i].round_data.consecutive_passes + 1]
    /\ reqs' = [reqs EXCEPT ![i] = [reqs[i] EXCEPT !.pc = "done", !.result = Ok]]
    /\ UNCHANGED <<contracts, last, calc, tricks, roomVars>>

NextRace ==
    \/ \E i \in 1..2 : place_trump_bid_read(i)
    \/ \E i \in 1..2 : place_trump_bid_write(i)
    \/ \E i \in 1..2 : pass_trump_bid_read(i)
    \/ \E i \in 1..2 : pass_trump_bid_write(i)

SpecRace == InitRace /\ [][NextRace]_vars

(* ---------------------------------------------------------------------- *)
(* Rooms and seats: RoomService (HTTP) over the database and Redis, and    *)
(* RoomManager (WebSocket) over Redis                                      *)
(*                                                                         *)
(* Each method is modelled on the Redis reply type its code handles:       *)
(* RoomService indexes replies by str, RoomManager by bytes.  The seat of  *)
(* a PlayerInfo is the field of the players hash it is stored under (every *)
(* writer stores seat_position under str(seat_position)).                  *)
(* ---------------------------------------------------------------------- *)

RoomUsers == {"u0", "u1", "u2", "u3", "u4"}

\* The users who create rooms.
RoomCreators == {"u0"}

\* The room code whose round hash is the variable round.
BiddingRoom == "R1"

NoSeat == -1

NoPlayer == [user_id |-> None, is_admin |-> FALSE, is_connected |-> FALSE]

PlayerInfo(user_id, is_admin, is_connected) == [user_id |-> user_id, is_admin |-> is_admin, is_connected |-> is_connected]

EmptySeats == [seat \in Seats |-> NoPlayer]

NoRoom == [exists |-> FALSE, admin_id |-> None, status |-> "waiting"]

NoGame == [exists |-> FALSE, admin_id |-> None, status |-> "waiting", current_round_number |-> 0]

GamePlayer(seat_position, is_admin) == [seat_position |-> seat_position, is_admin |-> is_admin, is_connected |-> TRUE]

NoGamePlayers == [u \in {} |-> GamePlayer(0, FALSE)]

NoReconnect == [room_code |-> None, seat_position |-> NoSeat]

\* The seating lists sent to update_seating (4 user ids each).
SeatingLists ==
    {<<"u1", "u0", "u2", "u3">>, <<"u0", "u1", "u2", "u4">>,
     <<"u0", "u1", "u0", "u1">>}

\* One room code, not yet in use; nobody is connected.
InitRoom ==
    /\ round = NoRound
    /\ contracts = NoContracts
    /\ last = NoLast
    /\ calc = NoCalc
    /\ reqs = NoReqs
    /\ tricks = NoTricks
    /\ rooms = [c \in {BiddingRoom} |-> NoRoom]
    /\ players = [c \in {BiddingRoom} |-> EmptySeats]
    /\ db_players = [c \in {BiddingRoom} |-> NoGamePlayers]
    /\ games = [c \in {BiddingRoom} |-> NoGame]
    /\ reconnect = [u \in RoomUsers |-> NoReconnect]
    /\ conn = [u \in RoomUsers |-> None]

\* What a room operation returned: the error code (Ok on success) and the
\* seat it reports.
RoomResult(op, c, u, err, seat) == [op |-> op, user |-> u, err |-> err, outbid |-> FALSE, room |-> c, seat |-> seat]

\* _get_room_players: the occupied fields of the players hash.
OccupiedSeats(c) == {seat \in Seats : players[c][seat] # NoPlayer}

\* _find_player_seat: the seat of the first entry of the hash held by the
\* user, None (NoSeat) when there is none; with the user under several
\* fields the hash order decides.
FindPlayerSeat(c, u) ==
    LET found == {seat \in Seats : players[c][seat].user_id = u}
    IN  IF found = {} THEN {NoSeat} ELSE found

\* FirstFreeSeat scanning the seats from the top.
FirstFreeSeat_Highest(taken) ==
    IF Seats \ taken = {} THEN NoSeat
    ELSE CHOOSE seat \in Seats \ taken : \A other \in Seats \ taken : seat >= other

\* The lowest seat of 0..3 that is not taken, NoSeat when all are.
FirstFreeSeat(taken) ==
    IF Seats \ taken = {} THEN NoSeat
    ELSE CHOOSE seat \in Seats \ taken : \A other \in Seats \ taken : seat <= other

\* The rows of a game without the user's.
WithoutRow(rows, u) == [v \in DOMAIN rows \ {u} |-> rows[v]]

\* The rows of a game with the user's row set.
WithRow(rows, u, row) == [v \in DOMAIN rows \cup {u} |-> IF v = u THEN row ELSE rows[v]]

\* RoomService.create_room
create_room(c, u) ==
    /\ ~rooms[c].exists
    /\ ~games[c].exists
    /\ games' = [games EXCEPT ![c] = [exists |-> TRUE, admin_id |-> u,
                                      status |-> "waiting",
                                      current_round_number |-> 0]]
    /\ db_players' = [db_players EXCEPT ![c] = WithRow(NoGamePlayers, u, GamePlayer(0, TRUE))]
    /\ rooms' = [rooms EXCEPT ![c] = [exists |-> TRUE, admin_id |-> u,
                                      status |-> "waiting"]]
    /\ players' = [players EXCEPT ![c] =
                     [EmptySeats EXCEPT ![0] = PlayerInfo(u, TRUE, FALSE)]]
    /\ last' = RoomResult("create_room", c, u, Ok, 0)
    /\ UNCHANGED <<round, contracts, calc, reqs, tricks, reconnect, conn>>

\* RoomService.join_room
RoomService_join_room(c, u) ==
    LET rows     == db_players[c]
        existing == u \in DOMAIN rows
        taken    == {rows[v].seat_position : v \in DOMAIN rows}
        seat     == IF existing THEN rows[u].seat_position ELSE FirstFreeSeat(taken)
        err      == IF ~rooms[c].exists THEN "ROOM_NOT_FOUND"
                    ELSE IF existing /\ seat \in Seats /\ players[c][seat] # NoPlayer
                         THEN "PLAYER_ALREADY_IN_ROOM"
                    ELSE IF ~existing /\ seat = NoSeat THEN "ROOM_FULL"
                    ELSE Ok
    IN  /\ last' = RoomResult("RoomService.join_room", c, u, err,
                              IF err = Ok THEN seat ELSE NoSeat)
        /\ IF err = Ok
           THEN /\ db_players' = [db_players EXCEPT ![c] =
                                    IF existing
                                    THEN [rows EXCEPT ![u].is_connected = TRUE]
                                    ELSE WithRow(rows, u, GamePlayer(seat, FALSE))]
                /\ players' = [players EXCEPT ![c][seat] = PlayerInfo(u, FALSE, TRUE)]
           ELSE UNCHANGED <<db_players, players>>
        /\ UNCHANGED <<round, contracts, calc, reqs, tricks, rooms, games, reconnect, conn>>

\* RoomService.leave_room
RoomService_leave_room(c, u) ==
    LET rows == db_players[c]
        err  == IF ~rooms[c].exists THEN "ROOM_NOT_FOUND" ELSE Ok
    IN  /\ last' = RoomResult("RoomService.leave_room", c, u, err, NoSeat)
        /\ IF err = Ok /\ u \in DOMAIN rows
           THEN /\ db_players' = [db_players EXCEPT ![c] = WithoutRow(rows, u)]
                /\ players' = [players EXCEPT ![c][rows[u].seat_position] = NoPlayer]
           ELSE UNCHANGED <<db_players, players>>
        /\ UNCHANGED <<round, contracts, calc, reqs, tricks, rooms, games, reconnect, conn>>

\* The seat update_seating gives a user: the last index of the list that
\* names the user (seats are 0-indexed).
NewSeat(positions, u) ==
    (CHOOSE i \in 1..Len(positions) :
        /\ positions[i] = u
        /\ \A j \in 1..Len(positions) : positions[j] = u => j <= i) - 1

\* Whether the flush of the re-seated rows can meet the unique constraint
\* uq_game_players_game_seat: some row moves to a seat that another row
\* held before the flush.
SeatCollision(rows, new_rows) ==
    \E v \in DOMAIN rows, w \in DOMAIN rows :
        /\ v # w
        /\ new_rows[v].seat_position # rows[v].seat_position
        /\ new_rows[v].seat_position = rows[w].seat_position

\* RoomService.update_seating; when rows collide on a seat during the flush
\* the database either refuses the flush (constraint checked per statement)
\* or accepts it (constraint checked at commit, or not enforced).
update_seating(c, u, positions) ==
    LET rows == db_players[c]
        requested_ids == {positions[i] : i \in 1..Len(positions)}
        valid == /\ rooms[c].exists
                 /\ u = rooms[c].admin_id
                 /\ DOMAIN rows = requested_ids
        new_rows  == [v \in DOMAIN rows |->
                        [rows[v] EXCEPT !.seat_position = NewSeat(positions, v)]]
        new_seats == {new_rows[v].seat_position : v \in DOMAIN rows}
    IN  \E flushed \in IF valid /\ SeatCollision(rows, new_rows)
                        THEN {TRUE, FALSE} ELSE {TRUE} :
          LET err == IF ~rooms[c].exists THEN "ROOM_NOT_FOUND"
                     ELSE IF u # rooms[c].admin_id THEN "PERMISSION_DENIED"
                     ELSE IF DOMAIN rows # requested_ids THEN "VALIDATION_ERROR"
                     ELSE IF ~flushed THEN "IntegrityError"
                     ELSE Ok
          IN  /\ last' = RoomResult("update_seating", c, u, err, NoSeat)
              /\ IF err = Ok
                 THEN /\ db_players' = [db_players EXCEPT ![c] = new_rows]
                      /\ players' = [players EXCEPT ![c] =
                                       [seat \in Seats |->
                                          IF seat \in new_seats THEN players[c][seat]
                                          ELSE NoPlayer]]
                 ELSE UNCHANGED <<db_players, players>>
              /\ UNCHANGED <<round, contracts, calc, reqs, tricks, rooms, games, reconnect, conn>>

\* The user of the row with the lowest seat_position.
FirstBidder(rows) ==
    CHOOSE v \in DOMAIN rows :
        \A w \in DOMAIN rows : rows[v].seat_position <= rows[w].seat_position

\* start_game counting the players before it looks at the caller.
start_game_CountFirst(c, u) ==
    LET rows == db_players[c]
        err  == IF ~rooms[c].exists THEN "ROOM_NOT_FOUND"
                ELSE IF Cardinality(DOMAIN rows) # 4 THEN "ROOM_NOT_ENOUGH_PLAYERS"
                ELSE IF u # rooms[c].admin_id THEN "PERMISSION_DENIED"
                ELSE Ok
    IN  /\ last' = RoomResult("start_game", c, u, err, NoSeat) @@
                   [first_bidder_id |-> IF err = Ok THEN FirstBidder(rows) ELSE None]
        /\ IF err = Ok
           THEN /\ games' = [games EXCEPT ![c].status = "bidding_trump",
                                          ![c].current_round_number = 1]
                /\ rooms' = [rooms EXCEPT ![c].status = "bidding_trump"]
           ELSE UNCHANGED <<games, rooms>>
        /\ UNCHANGED <<round, contracts, calc, reqs, tricks, players, db_players, reconnect, conn>>

\* RoomService.start_game
start_game(c, u) ==
    LET rows == db_players[c]
        err  == IF ~rooms[c].exists THEN "ROOM_NOT_FOUND"
                ELSE IF u # rooms[c].admin_id THEN "PERMISSION_DENIED"
                ELSE IF Cardinality(DOMAIN rows) # 4 THEN "ROOM_NOT_ENOUGH_PLAYERS"
                ELSE Ok
    IN  /\ last' = RoomResult("start_game", c, u, err, NoSeat) @@
                   [first_bidder_id |-> IF err = Ok THEN FirstBidder(rows) ELSE None]
        /\ IF err = Ok
           THEN /\ games' = [games EXCEPT ![c].status = "bidding_trump",
                                          ![c].current_round_number = 1]
                /\ rooms' = [rooms EXCEPT ![c].status = "bidding_trump"]
           ELSE UNCHANGED <<games, rooms>>
        /\ UNCHANGED <<round, contracts, calc, reqs, tricks, players, db_players, reconnect, conn>>

\* RoomManager._delete_room, as the values it leaves for the room code.
DeleteRoom(c) ==
    /\ rooms' = [rooms EXCEPT ![c] = NoRoom]
    /\ players' = [players EXCEPT ![c] = EmptySeats]
    /\ round' = IF c = BiddingRoom THEN NoRound ELSE round

\* RoomManager.leave_room from the removal of the player found in the seat:
\* hdel, _clear_connection of the user's socket, _delete_room if nobody is
\* left.
LeaveSeat(c, u, seat) ==
    /\ conn' = [conn EXCEPT ![u] = None]
    /\ IF OccupiedSeats(c) \ {seat} = {}
       THEN DeleteRoom(c)
       ELSE /\ players' = [players EXCEPT ![c][seat] = NoPlayer]
            /\ UNCHANGED <<rooms, round>>

\* RoomManager.join_room
RoomManager_join_room(c, u) ==
    \E existing_seat \in FindPlayerSeat(c, u) :
      LET rejoin == reconnect[u] # NoReconnect /\ reconnect[u].room_code = c
          seat == IF rejoin THEN reconnect[u].seat_position
                  ELSE IF existing_seat # NoSeat THEN existing_seat
                  ELSE FirstFreeSeat(OccupiedSeats(c))
          admitted == rooms[c].exists /\ Cardinality(OccupiedSeats(c)) < 4
          err  == IF ~rooms[c].exists THEN "ROOM_NOT_FOUND"
                  ELSE IF Cardinality(OccupiedSeats(c)) >= 4 THEN "ROOM_FULL"
                  ELSE IF rejoin /\ players[c][seat] = NoPlayer THEN "StopIteration"
                  ELSE Ok
      IN  /\ last' = RoomResult("RoomManager.join_room", c, u, err,
                                IF err = Ok THEN seat ELSE NoSeat)
          /\ IF ~admitted
             THEN UNCHANGED <<players, reconnect, conn>>
             ELSE /\ reconnect' = IF rejoin THEN [reconnect EXCEPT ![u] = NoReconnect]
                                  ELSE reconnect
                  /\ conn' = [conn EXCEPT ![u] = c]
                  /\ players' =
                       IF rejoin \/ existing_seat # NoSeat
                       THEN IF players[c][seat] # NoPlayer
                            THEN [players EXCEPT ![c][seat].is_connected = TRUE]
                            ELSE players
                       ELSE [players EXCEPT ![c][seat] =
                               PlayerInfo(u, rooms[c].admin_id = u, TRUE)]
          /\ UNCHANGED <<round, contracts, calc, reqs, tricks, rooms, db_players, games>>

\* RoomManager.leave_room
RoomManager_leave_room(c, u) ==
    \E seat \in FindPlayerSeat(c, u) :
      IF seat = NoSeat
      THEN /\ last' = RoomResult("RoomManager.leave_room", c, u, "PLAYER_NOT_IN_ROOM", NoSeat)
           /\ UNCHANGED <<round, contracts, calc, reqs, tricks, roomVars>>
      ELSE /\ last' = RoomResult("RoomManager.leave_room", c, u, Ok, seat)
           /\ LeaveSeat(c, u, seat)
           /\ UNCHANGED <<contracts, calc, reqs, tricks, db_players, games, reconnect>>

\* handle_disconnect that removes the player whatever the room's status.
handle_disconnect_AlwaysLeave(u) ==
    LET c == conn[u]
    IN  IF c = None
        THEN /\ last' = RoomResult("handle_disconnect", None, u, Ok, NoSeat)
             /\ UNCHANGED <<round, contracts, calc, reqs, tricks, roomVars>>
        ELSE \E seat \in FindPlayerSeat(c, u) :
               /\ last' = RoomResult("handle_disconnect",
                                     IF seat = NoSeat THEN None ELSE c, u, Ok, seat)
               /\ IF seat = NoSeat
                  THEN /\ conn' = [conn EXCEPT ![u] = None]
                       /\ UNCHANGED <<round, rooms, players, reconnect>>
                  ELSE /\ LeaveSeat(c, u, seat)
                       /\ UNCHANGED reconnect
               /\ UNCHANGED <<contracts, calc, reqs, tricks, db_players, games>>

\* RoomManager.handle_disconnect for the socket of the user, with
\* _mark_player_disconnected.
handle_disconnect(u) ==
    LET c == conn[u]
    IN  IF c = None
        THEN /\ last' = RoomResult("handle_disconnect", None, u, Ok, NoSeat)
             /\ UNCHANGED <<round, contracts, calc, reqs, tricks, roomVars>>
        ELSE \E seat \in FindPlayerSeat(c, u) :
               /\ last' = RoomResult("handle_disconnect",
                                     IF seat = NoSeat THEN None ELSE c, u, Ok, seat)
               /\ IF seat = NoSeat
                  THEN /\ conn' = [conn EXCEPT ![u] = None]
                       /\ UNCHANGED <<round, rooms, players, reconnect>>
                  ELSE IF ~rooms[c].exists \/ rooms[c].status = "waiting"
                  THEN /\ LeaveSeat(c, u, seat)
                       /\ UNCHANGED reconnect
                  ELSE /\ players' = [players EXCEPT ![c][seat].is_connected = FALSE]
                       /\ reconnect' = [reconnect EXCEPT ![u] =
                                          [room_code |-> c, seat_position |-> seat]]
                       /\ conn' = [conn EXCEPT ![u] = None]
                       /\ UNCHANGED <<round, rooms>>
               /\ UNCHANGED <<contracts, calc, reqs, tricks, db_players, games>>

\* The key reconnect:{user_id} expires (RECONNECT_GRACE_PERIOD after the
\* disconnection).
reconnect_expire(u) ==
    /\ reconnect[u] # NoReconnect
    /\ reconnect' = [reconnect EXCEPT ![u] = NoReconnect]
    /\ last' = RoomResult("reconnect_expire", reconnect[u].room_code, u, Ok, NoSeat)
    /\ UNCHANGED <<round, contracts, calc, reqs, tricks, rooms, players, db_players, games, conn>>

\* The users who leave over HTTP, re-seat, start the game and use the
\* WebSocket interface: the admin and one other player.
RoomActors == {"u0", "u1"}

\* The HTTP interface alone.
NextRoomHttp ==
    \/ \E c \in DOMAIN rooms, u \in RoomCreators : create_room(c, u)
    \/ \E c \in DOMAIN rooms, u \in RoomUsers : RoomService_join_room(c, u)
    \/ \E c \in DOMAIN rooms, u \in RoomActors : RoomService_leave_room(c, u)
    \/ \E c \in DOMAIN rooms, u \in RoomActors, positions \in SeatingLists : update_seating(c, u, positions)
    \/ \E c \in DOMAIN rooms, u \in RoomActors : start_game(c, u)

SpecRoomHttp == InitRoom /\ [][NextRoomHttp]_vars

\* The WebSocket interface, with the HTTP operations a game needs to start.
NextRoomWs ==
    \/ \E c \in DOMAIN rooms, u \in RoomCreators : create_room(c, u)
    \/ \E c \in DOMAIN rooms, u \in RoomUsers : RoomService_join_room(c, u)
    \/ \E c \in DOMAIN rooms, u \in RoomActors : start_game(c, u)
    \/ \E c \in DOMAIN rooms, u \in RoomActors : RoomManager_join_room(c, u)
    \/ \E c \in DOMAIN rooms, u \in RoomActors : RoomManager_leave_room(c, u)
    \/ \E u \in RoomActors : handle_disconnect(u)
    \/ \E u \in RoomActors : reconnect_expire(u)

SpecRoomWs == InitRoom /\ [][NextRoomWs]_vars

\* Joining and leaving a waiting room over both interfaces.
NextRoomSeat ==
    \/ \E c \in DOMAIN rooms, u \in RoomCreators : create_room(c, u)
    \/ \E c \in DOMAIN rooms, u \in RoomUsers : RoomService_join_room(c, u)
    \/ \E c \in DOMAIN rooms, u \in RoomActors : RoomService_leave_room(c, u)
    \/ \E c \in DOMAIN rooms, u \in RoomActors : RoomManager_join_room(c, u)
    \/ \E c \in DOMAIN rooms, u \in RoomActors : RoomManager_leave_room(c, u)

SpecRoomSeat == InitRoom /\ [][NextRoomSeat]_vars

\* Trump bids that are valid on a fresh round (at least the minimum bid 5).
OpeningAmounts == {5, 7}

\* A room from its creation to the first bids of its game: the HTTP
\* operations that start the game, then bids and passes sent for the room.
NextGameStart ==
    \/ \E c \in DOMAIN rooms, u \in RoomCreators : create_room(c, u)
    \/ \E c \in DOMAIN rooms, u \in RoomUsers : RoomService_join_room(c, u)
    \/ \E c \in DOMAIN rooms, u \in RoomActors : start_game(c, u)
    \/ \E u \in RoomActors, a \in OpeningAmounts, s \in BidSuits : place_trump_bid(u, a, s)
    \/ \E u \in RoomActors : pass_trump_bid(u)

SpecGameStart == InitRoom /\ [][NextGameStart]_vars

(* ---------------------------------------------------------------------- *)
(* Concurrent join requests on one room                                    *)
(*                                                                         *)
(* Both join_room methods are coroutines that read the seats (hgetall of   *)
(* the players hash, or a select of the game's rows), choose a seat from   *)
(* what they read, and then await the write.  Two requests interleave at   *)
(* these awaits; no lock, WATCH or transaction on Redis surrounds them.    *)
(* The database enforces uq_game_players_game_seat and                     *)
(* uq_game_players_game_user on the insert of a row.                       *)
(* ---------------------------------------------------------------------- *)

\* The users whose join requests are in flight; neither is seated.
JoinUsers == {"u3", "u4"}

JoinOps == {"RoomManager.join_room", "RoomService.join_room"}

\* A join request that has not started.
JoinRequest(op, user_id) == [op |-> op, user |-> user_id, pc |-> "start", seat |-> NoSeat, result |-> None]

\* The seated users the requests find: the admin alone, or the admin and
\* two others, seated from seat 0 up in both stores.
JoinSeatings == {<<"u0">>, <<"u0", "u1", "u2">>}

\* An existing waiting room with the given users seated, and two join
\* requests of different users in flight.
InitJoinRace ==
    /\ round = NoRound
    /\ contracts = NoContracts
    /\ last = NoLast
    /\ calc = NoCalc
    /\ tricks = NoTricks
    /\ rooms = [c \in {BiddingRoom} |-> [exists |-> TRUE, admin_id |-> "u0", status |-> "waiting"]]
    /\ games = [c \in {BiddingRoom} |-> [exists |-> TRUE, admin_id |-> "u0", status |-> "waiting", current_round_number |-> 0]]
    /\ \E seated \in JoinSeatings :
         /\ players = [c \in {BiddingRoom} |->
                         [seat \in Seats |->
                            IF seat < Len(seated)
                            THEN PlayerInfo(seated[seat + 1], seat = 0, TRUE)
                            ELSE NoPlayer]]
         /\ db_players = [c \in {BiddingRoom} |->
                            [u \in {seated[i] : i \in 1..Len(seated)} |->
                               GamePlayer((CHOOSE i \in 1..Len(seated) : seated[i] = u) - 1,
                                          u = "u0")]]
    /\ reconnect = [u \in RoomUsers |-> NoReconnect]
    /\ conn = [u \in RoomUsers |-> None]
    /\ reqs \in {r \in [1..2 -> {JoinRequest(op, u) : op \in JoinOps, u \in JoinUsers}] :
                   r[1].user # r[2].user}

\* RoomManager.join_room up to its hset: the reads of the room, the players
\* and the user's seat, and the choice of the seat among the players read.
RoomManager_join_room_read(i) ==
    /\ i \in DOMAIN reqs
    /\ reqs[i].op = "RoomManager.join_room"
    /\ reqs[i].pc = "start"
    /\ \E existing_seat \in FindPlayerSeat(BiddingRoom, reqs[i].user) :
         LET c   == BiddingRoom
             err == IF ~rooms[c].exists THEN "ROOM_NOT_FOUND"
                    ELSE IF Cardinality(OccupiedSeats(c)) >= 4 THEN "ROOM_FULL"
                    ELSE Ok
         IN  reqs' = [reqs EXCEPT ![i] =
                        IF err # Ok
                        THEN [reqs[i] EXCEPT !.pc = "done", !.result = err]
                        ELSE IF existing_seat # NoSeat
                        THEN [reqs[i] EXCEPT !.pc = "done", !.result = Ok,
                                             !.seat = existing_seat]
                        ELSE [reqs[i] EXCEPT !.pc = "chosen",
                                             !.seat = FirstFreeSeat(OccupiedSeats(c))]]
    /\ UNCHANGED <<round, contracts, last, calc, tricks, roomVars>>

\* RoomManager.join_room from its hset: the entry goes to the chosen seat and
\* the socket is tracked.
RoomManager_join_room_write(i) ==
    /\ i \in DOMAIN reqs
    /\ reqs[i].op = "RoomManager.join_room"
    /\ reqs[i].pc = "chosen"
    /\ players' = [players EXCEPT ![BiddingRoom][reqs[i].seat] =
                     PlayerInfo(reqs[i].user, rooms[BiddingRoom].admin_id = reqs[i].user, TRUE)]
    /\ conn' = [conn EXCEPT ![reqs[i].user] = BiddingRoom]
    /\ reqs' = [reqs EXCEPT ![i] = [reqs[i] EXCEPT !.pc = "done", !.result = Ok]]
    /\ UNCHANGED <<round, contracts, last, calc, tricks, rooms, db_players, games, reconnect>>

\* RoomService.join_room up to the insert of the row: the reads of the room
\* and of the game's rows, and the choice of the seat among the rows read.
RoomService_join_room_read(i) ==
    /\ i \in DOMAIN reqs
    /\ reqs[i].op = "RoomService.join_room"
    /\ reqs[i].pc = "start"
    /\ LET c        == BiddingRoom
           rows     == db_players[c]
           existing == reqs[i].user \in DOMAIN rows
           taken    == {rows[v].seat_position : v \in DOMAIN rows}
           seat     == IF existing THEN rows[reqs[i].user].seat_position
                       ELSE FirstFreeSeat(taken)
           err      == IF ~rooms[c].exists THEN "ROOM_NOT_FOUND"
                       ELSE IF existing /\ players[c][seat] # NoPlayer
                            THEN "PLAYER_ALREADY_IN_ROOM"
                       ELSE IF ~existing /\ seat = NoSeat THEN "ROOM_FULL"
                       ELSE Ok
       IN  reqs' = [reqs EXCEPT ![i] =
                      IF err # Ok
                      THEN [reqs[i] EXCEPT !.pc = "done", !.result = err]
                      ELSE [reqs[i] EXCEPT !.seat = seat,
                                           !.pc = IF existing THEN "flushed" ELSE "chosen"]]
    /\ UNCHANGED <<round, contracts, last, calc, tricks, roomVars>>

\* RoomService.join_room, the insert of the row: refused by the database
\* when another row of the game has the seat or the user.
RoomService_join_room_flush(i) ==
    /\ i \in DOMAIN reqs
    /\ reqs[i].op = "RoomService.join_room"
    /\ reqs[i].pc = "chosen"
    /\ LET rows  == db_players[BiddingRoom]
           taken == {rows[v].seat_position : v \in DOMAIN rows}
       IN  IF reqs[i].seat \in taken \/ reqs[i].user \in DOMAIN rows
           THEN /\ reqs' = [reqs EXCEPT ![i] =
                              [reqs[i] EXCEPT !.pc = "done", !.result = "IntegrityError"]]
                /\ UNCHANGED db_players
           ELSE /\ reqs' = [reqs EXCEPT ![i] = [reqs[i] EXCEPT !.pc = "flushed"]]
                /\ db_players' = [db_players EXCEPT ![BiddingRoom] =
                                    WithRow(rows, reqs[i].user, GamePlayer(reqs[i].seat, FALSE))]
    /\ UNCHANGED <<round, contracts, last, calc, tricks, rooms, players, games, reconnect, conn>>

\* RoomService.join_room from its hset of the player's entry.
RoomService_join_room_write(i) ==
    /\ i \in DOMAIN reqs
    /\ reqs[i].op = "RoomService.join_room"
    /\ reqs[i].pc = "flushed"
    /\ players' = [players EXCEPT ![BiddingRoom][reqs[i].seat] =
                     PlayerInfo(reqs[i].user, FALSE, TRUE)]
    /\ reqs' = [reqs EXCEPT ![i] = [reqs[i] EXCEPT !.pc = "done", !.result = Ok]]
    /\ UNCHANGED <<round, contracts, last, calc, tricks, rooms, db_players, games, reconnect, conn>>

NextJoinRace ==
    \/ \E i \in 1..2 : RoomManager_join_room_read(i)
    \/ \E i \in 1..2 : RoomManager_join_room_write(i)
    \/ \E i \in 1..2 : RoomService_join_room_read(i)
    \/ \E i \in 1..2 : RoomService_join_room_flush(i)
    \/ \E i \in 1..2 : RoomService_join_room_write(i)

SpecJoinRace == InitJoinRace /\ [][NextJoinRace]_vars

(* ---------------------------------------------------------------------- *)
(* Two rooms with a user seated in both                                    *)
(* ---------------------------------------------------------------------- *)

\* The second room code.
OtherRoom == "R2"

\* The players hash with the given users seated from seat 0 up, the first
\* of them admin and not yet connected over a socket (create_room), the
\* others as RoomService.join_room enters them.
SeatedFromZero(seated) ==
    [seat \in Seats |->
        IF seat < Len(seated)
        THEN PlayerInfo(seated[seat + 1], seat = 0, seat # 0)
        ELSE NoPlayer]

\* The rows of a game with the given users seated from seat 0 up.
RowsFromZero(seated) ==
    [u \in {seated[i] : i \in 1..Len(seated)} |->
        GamePlayer((CHOOSE i \in 1..Len(seated) : seated[i] = u) - 1, u = seated[1])]

\* Two rooms with started games: R1 of u0 with u1, u2, u3, and R2 of u4 with
\* u0, u1, u2, of whom u2 has left R2 over the WebSocket since the start
\* (the row stays); u0 may have a socket joined to R1.
InitTwoRooms ==
    /\ round = NoRound
    /\ contracts = NoContracts
    /\ last = NoLast
    /\ calc = NoCalc
    /\ reqs = NoReqs
    /\ tricks = NoTricks
    /\ rooms = [c \in {BiddingRoom, OtherRoom} |->
                  [exists |-> TRUE,
                   admin_id |-> IF c = BiddingRoom THEN "u0" ELSE "u4",
                   status |-> "bidding_trump"]]
    /\ games = [c \in {BiddingRoom, OtherRoom} |->
                  [exists |-> TRUE,
                   admin_id |-> IF c = BiddingRoom THEN "u0" ELSE "u4",
                   status |-> "bidding_trump",
                   current_round_number |-> 1]]
    /\ db_players = [c \in {BiddingRoom, OtherRoom} |->
                       IF c = BiddingRoom
                       THEN RowsFromZero(<<"u0", "u1", "u2", "u3">>)
                       ELSE RowsFromZero(<<"u4", "u0", "u1", "u2">>)]
    /\ reconnect = [u \in RoomUsers |-> NoReconnect]
    /\ \E joined \in {None, BiddingRoom} :
         /\ conn = [u \in RoomUsers |-> IF u = "u0" THEN joined ELSE None]
         /\ players = [c \in {BiddingRoom, OtherRoom} |->
                         IF c = BiddingRoom
                         THEN [SeatedFromZero(<<"u0", "u1", "u2", "u3">>)
                                 EXCEPT ![0].is_connected = (joined = BiddingRoom)]
                         ELSE SeatedFromZero(<<"u4", "u0", "u1">>)]

\* The WebSocket operations of the two users seated in both rooms.
NextTwoRooms ==
    \/ \E c \in DOMAIN rooms, u \in RoomActors : RoomManager_join_room(c, u)
    \/ \E c \in DOMAIN rooms, u \in RoomActors : RoomManager_leave_room(c, u)
    \/ \E u \in RoomActors : handle_disconnect(u)
    \/ \E u \in RoomActors : reconnect_expire(u)

SpecTwoRooms == InitTwoRooms /\ [][NextTwoRooms]_vars

(* ---------------------------------------------------------------------- *)
(* Disconnections during trump bidding                                     *)
(* ---------------------------------------------------------------------- *)

\* The round states a disconnection finds: none (start_game creates none),
\* and a fresh round whose bidder is the player of seat 0.
DisconnectRounds == {NoRound, BiddingState("u0")}

\* Amounts offered to place_contract_bid during the game.
DisconnectContracts == {3}

\* A room with a started game and 4 players; u0 and u1 have sockets joined
\* to the room.
InitDisconnect ==
    /\ round \in DisconnectRounds
    /\ contracts = NoContracts
    /\ last = NoLast
    /\ calc = NoCalc
    /\ reqs = NoReqs
    /\ tricks = NoTricks
    /\ rooms = [c \in {BiddingRoom} |->
                  [exists |-> TRUE, admin_id |-> "u0", status |-> "bidding_trump"]]
    /\ games = [c \in {BiddingRoom} |->
                  [exists |-> TRUE, admin_id |-> "u0", status |-> "bidding_trump",
                   current_round_number |-> 1]]
    /\ players = [c \in {BiddingRoom} |->
                    [SeatedFromZero(<<"u0", "u1", "u2", "u3">>)
                       EXCEPT ![0].is_connected = TRUE]]
    /\ db_players = [c \in {BiddingRoom} |-> RowsFromZero(<<"u0", "u1", "u2", "u3">>)]
    /\ reconnect = [u \in RoomUsers |-> NoReconnect]
    /\ conn = [u \in RoomUsers |-> IF u \in RoomActors THEN BiddingRoom ELSE None]

\* Bids, passes and contract bids of the two connected players, their
\* disconnections, rejoins and leaves, and the end of a grace period.
NextDisconnect ==
    \/ \E u \in RoomActors, a \in OpeningAmounts, s \in TrumpWinSuits : place_trump_bid(u, a, s)
    \/ \E u \in RoomActors : pass_trump_bid(u)
    \/ \E u \in RoomActors, a \in DisconnectContracts : place_contract_bid(u, a)
    \/ \E u \in RoomActors : handle_disconnect(u)
    \/ \E c \in DOMAIN rooms, u \in RoomActors : RoomManager_join_room(c, u)
    \/ \E c \in DOMAIN rooms, u \in RoomActors : RoomManager_leave_room(c, u)
    \/ \E u \in RoomActors : reconnect_expire(u)

SpecDisconnect == InitDisconnect /\ [][NextDisconnect]_vars

(* ---------------------------------------------------------------------- *)
(* Trick tracking of the play phase                                        *)
(*                                                                         *)
(* The source holds the declarations of trick tracking (the columns        *)
(* total_tricks_played and tricks_won with their 0..13 constraints, the    *)
(* round:claim_trick and round:undo_trick payloads and error codes) but    *)
(* not the handlers; claimTrick and undoTrick follow section 4.4 of the    *)
(* specification.                                                          *)
(* ---------------------------------------------------------------------- *)

InitTricks ==
    /\ round = NoRound
    /\ contracts = NoContracts
    /\ last = NoLast
    /\ calc = NoCalc
    /\ reqs = NoReqs
    /\ tricks = NoTricks
    /\ NoRoomState

\* claimTrick that does not look at the total.
claimTrick_NoLimit(seat) ==
    /\ last' = [op |-> "claimTrick", user |-> None, err |-> Ok, outbid |-> FALSE]
    /\ tricks' = [tricks EXCEPT
                    !.tricks_won[seat] = @ + 1,
                    !.total_tricks_played = @ + 1,
                    !.phase = IF tricks.total_tricks_played + 1 = TricksPerRound
                              THEN "complete" ELSE @]
    /\ UNCHANGED <<round, contracts, calc, reqs, roomVars>>

claimTrick(seat) ==
    LET err == IF tricks.total_tricks_played = TricksPerRound
               THEN "ROUND_COMPLETE" ELSE Ok
    IN  /\ last' = [op |-> "claimTrick", user |-> None, err |-> err, outbid |-> FALSE]
        /\ tricks' = IF err = Ok
                     THEN [tricks EXCEPT
                             !.tricks_won[seat] = @ + 1,
                             !.total_tricks_played = @ + 1,
                             !.phase = IF tricks.total_tricks_played + 1 = TricksPerRound
                                       THEN "complete" ELSE @]
                     ELSE tricks
        /\ UNCHANGED <<round, contracts, calc, reqs, roomVars>>

undoTrick(seat) ==
    LET err == IF tricks.phase = "complete" THEN "ROUND_ALREADY_COMPLETE"
               ELSE IF tricks.tricks_won[seat] = 0 THEN "NO_TRICKS_TO_UNDO"
               ELSE Ok
    IN  /\ last' = [op |-> "undoTrick", user |-> None, err |-> err, outbid |-> FALSE]
        /\ tricks' = IF err = Ok
                     THEN [tricks EXCEPT
                             !.tricks_won[seat] = @ - 1,
                             !.total_tricks_played = @ - 1]
                     ELSE tricks
        /\ UNCHANGED <<round, contracts, calc, reqs, roomVars>>

NextTricks ==
    \/ \E seat \in Seats : claimTrick(seat)
    \/ \E seat \in Seats : undoTrick(seat)

SpecTricks == InitTricks /\ [][NextTricks]_vars

(* ---------------------------------------------------------------------- *)
(* Helpers of the properties                                               *)
(* ---------------------------------------------------------------------- *)

\* The seat (0..3) of a seated player and the player in the next seat
\* clockwise.
SeatOf(u) == CHOOSE i \in 0..(Len(Seated) - 1) : Seated[i + 1] = u

NextClockwise(u) == Seated[((SeatOf(u) + 1) % Len(Seated)) + 1]

\* The request of user u is out of turn in the current round.
OutOfTurn(u) ==
    /\ round.exists
    /\ (round.current_bidder_id = None \/ round.current_bidder_id # u)

\* The step refused the request with err and changed nothing.
RefusedWith(err) ==
    /\ last'.err = err
    /\ round' = round
    /\ contracts' = contracts

(* ---------------------------------------------------------------------- *)
(* Properties                                                              *)
(* ---------------------------------------------------------------------- *)

\* C1: a place_trump_bid, pass_trump_bid or place_contract_bid issued by a
\* user who is not the round's current bidder (or while no current bidder
\* is set) is refused with "Not your turn" and leaves the round state and
\* the recorded contracts unchanged.
C1_NotYourTurn ==
    [][(/\ last'.op \in {"place_trump_bid", "pass_trump_bid", "place_contract_bid"}
        /\ OutOfTurn(last'.user))
       => RefusedWith("Not your turn")]_vars

\* C1 witness: a contract bid was refused as out of turn in a round whose
\* current bidder has a standing trump bid.
C1_Witness ==
    /\ round.exists
    /\ round.current_bidder_id # None
    /\ round.highest_bid # NoBid
    /\ last.op = "place_contract_bid"
    /\ last.err = "Not your turn"

\* C2: every accepted trump bid strictly outranks the highest bid stored
\* just before it in the lexicographic (amount, suit rank) order.
C2_BidMonotonic ==
    [][(/\ last'.op = "place_trump_bid"
        /\ last'.err = Ok
        /\ round.highest_bid # NoBid)
       => LET old == round.highest_bid
              new == round'.highest_bid
          IN  \/ new.amount > old.amount
              \/ /\ new.amount = old.amount
                 /\ SUIT_ORDER(new.suit) > SUIT_ORDER(old.suit)]_vars

\* C2 witness: a bid was accepted over a standing bid of the same amount
\* (the minimum), so it won on the suit rank alone.
C2_Witness ==
    /\ last.op = "place_trump_bid"
    /\ last.err = Ok
    /\ last.outbid
    /\ round.highest_bid.amount = round.minimum_bid

\* C3 (as claimed): after every accepted trump bid or pass the current
\* bidder becomes the player in the next seat clockwise.
C3_TurnAdvances ==
    [][(/\ last'.op \in {"place_trump_bid", "pass_trump_bid"}
        /\ last'.err = Ok)
       => round'.current_bidder_id = NextClockwise(round.current_bidder_id)]_vars

\* C4: an accepted place_trump_bid replaces highest_bid with exactly the
\* submitted (player, amount, suit) and resets consecutive_passes to 0,
\* while frisch_count, minimum_bid and the phase stay unchanged.
C4_BidEffect ==
    [][(last'.op = "place_trump_bid" /\ last'.err = Ok) =>
         \A a \in TrumpAmounts, s \in BidSuits :
           place_trump_bid(last'.user, a, s) =>
           /\ round'.highest_bid = [player_id |-> last'.user, amount |-> a, suit |-> s]
           /\ round'.consecutive_passes = 0
           /\ round'.frisch_count = round.frisch_count
           /\ round'.minimum_bid = round.minimum_bid
           /\ round'.phase = round.phase]_vars

\* C4 witness: a bid was accepted after a frisch, and it stands with the
\* pass counter at 0.
C4_Witness ==
    /\ last.op = "place_trump_bid"
    /\ last.err = Ok
    /\ round.highest_bid # NoBid
    /\ round.highest_bid.player_id = round.current_bidder_id
    /\ round.consecutive_passes = 0
    /\ round.frisch_count > 0

\* C5: an accepted pass_trump_bid increases consecutive_passes by exactly 1
\* and leaves highest_bid, minimum_bid, frisch_count and the phase
\* unchanged.
C5_PassEffect ==
    [][(last'.op = "pass_trump_bid" /\ last'.err = Ok) =>
           /\ round'.consecutive_passes = round.consecutive_passes + 1
           /\ round'.highest_bid = round.highest_bid
           /\ round'.minimum_bid = round.minimum_bid
           /\ round'.frisch_count = round.frisch_count
           /\ round'.phase = round.phase]_vars

\* C5 witness: two passes were accepted on top of a standing bid.
C5_Witness ==
    /\ last.op = "pass_trump_bid"
    /\ last.err = Ok
    /\ round.highest_bid # NoBid
    /\ round.consecutive_passes = 2

\* C6 (as claimed): the fourth consecutive pass accepted in a cycle in
\* which no bid was placed, with frisch_count < 3, is a frisch: at that
\* moment frisch_count increases by 1, minimum_bid is recomputed and
\* consecutive_passes returns to 0.
C6_FrischTrigger ==
    [][(/\ last'.op = "pass_trump_bid"
        /\ last'.err = Ok
        /\ round.consecutive_passes = 3
        /\ round.highest_bid = NoBid
        /\ round.frisch_count < 3)
       => /\ round'.frisch_count = round.frisch_count + 1
          /\ round'.minimum_bid = get_minimum_bid(round.frisch_count + 1)
          /\ round'.consecutive_passes = 0]_vars

\* C7 (as claimed): the third consecutive pass after a standing bid ends
\* trump bidding: the holder of highest_bid becomes trump winner, the
\* recorded trump suit and winning bid are exactly that bid's suit and
\* amount, and the phase becomes contract_bidding.
C7_TrumpSet ==
    [][(/\ last'.op = "pass_trump_bid"
        /\ last'.err = Ok
        /\ round.consecutive_passes = 2
        /\ round.highest_bid # NoBid)
       => /\ round'.trump_winner_id = round.highest_bid.player_id
          /\ round'.trump_suit = round.highest_bid.suit
          /\ round'.trump_winning_bid = round.highest_bid.amount
          /\ round'.phase = "contract_bidding"]_vars

\* C8 (as claimed): place_contract_bid records a bid only if
\* validate_contract_bid accepts it, with is_last_bidder true exactly for
\* the 4th bid of the round and is_trump_winner / trump_winning_bid taken
\* from the trump-bidding result.
C8_ContractValidated ==
    [][(last'.op = "place_contract_bid" /\ last'.err = Ok) =>
         validate_contract_bid(contracts'[last'.user], get_contract_sum,
                               Cardinality(DOMAIN contracts) = 3,
                               last'.user = round.trump_winner_id,
                               round.trump_winning_bid) = Ok]_vars

\* C9 (as claimed): after a contract bid by seat s is recorded the turn
\* advances to seat (s+1) mod 4, and a recorded contract bid is never
\* overwritten by a later call.
C9_ContractOrder ==
    [][(/\ last'.op = "place_contract_bid"
        /\ last'.err = Ok)
       => /\ round'.current_bidder_id = NextClockwise(round.current_bidder_id)
          /\ round.current_bidder_id \notin DOMAIN contracts]_vars

\* C10 (as claimed): place_contract_bid while the phase is trump_bidding,
\* and place_trump_bid or pass_trump_bid once the phase is
\* contract_bidding, are refused and change no state.
C10_PhaseViolation ==
    [][/\ (last'.op = "place_contract_bid" /\ round.phase = "trump_bidding")
            => (last'.err # Ok /\ round' = round /\ contracts' = contracts)
       /\ (/\ last'.op \in {"place_trump_bid", "pass_trump_bid"}
           /\ round.phase = "contract_bidding")
            => (last'.err # Ok /\ round' = round /\ contracts' = contracts)]_vars

(* ---------------------------------------------------------------------- *)
(* Properties of the pure functions (under SpecPure)                       *)
(* ---------------------------------------------------------------------- *)

\* The suit ranking clubs < diamonds < hearts < spades < no-trump.
SuitRanking == <<"clubs", "diamonds", "hearts", "spades", "no_trump">>

RankOf(s) == CHOOSE i \in 1..Len(SuitRanking) : SuitRanking[i] = s

\* C12: with is_last_bidder true and current_sum + bid_amount = 13,
\* validate_contract_bid never succeeds and fails with the sum-equals-13
\* reason when no earlier rule fails; with is_last_bidder false the sum
\* rule never rejects.
C12_LastBidderSum ==
    calc.fn = "validate_contract_bid" =>
      LET sum13   == calc.current_sum + calc.bid_amount = 13
          earlier == \/ calc.bid_amount < 0
                     \/ calc.bid_amount > 13
                     \/ (calc.is_trump_winner
                           /\ calc.bid_amount < calc.trump_winning_bid)
          sumMsg  == "Last bidder cannot make the sum equal 13"
      IN  /\ (calc.is_last_bidder /\ sum13) => calc.result # Ok
          /\ (calc.is_last_bidder /\ sum13 /\ ~earlier) => calc.result = sumMsg
          /\ ~calc.is_last_bidder => calc.result # sumMsg

\* C12 witness: a trump winner bidding last, at least the winning bid, was
\* refused because the sum would be 13.
C12_Witness ==
    /\ calc.fn = "validate_contract_bid"
    /\ calc.is_last_bidder
    /\ calc.is_trump_winner
    /\ calc.bid_amount = 7
    /\ calc.trump_winning_bid = 7
    /\ calc.current_sum = 6
    /\ calc.result = "Last bidder cannot make the sum equal 13"

\* C13: validate_contract_bid reports range, then trump minimum, then sum:
\* an amount outside 0..13 is rejected as out of range; otherwise a trump
\* winner below the winning bid is rejected for the trump minimum even when
\* the bid is also a last bid making the sum 13; nobody else is rejected
\* for the trump minimum.
C13_CheckOrder ==
    calc.fn = "validate_contract_bid" =>
      LET inRange  == 0 <= calc.bid_amount /\ calc.bid_amount <= 13
          belowMin == calc.is_trump_winner
                        /\ calc.bid_amount < calc.trump_winning_bid
          minMsg   == "Trump winner must bid at least winning bid"
      IN  /\ ~inRange => calc.result = "Contract must be between 0 and 13"
          /\ (inRange /\ belowMin) => calc.result = minMsg
          /\ calc.result = minMsg => (inRange /\ belowMin)

\* C13 witness: a trump winner's last bid was below the winning bid and made
\* the sum 13, and it was refused for the trump minimum.
C13_Witness ==
    /\ calc.fn = "validate_contract_bid"
    /\ calc.is_trump_winner
    /\ calc.is_last_bidder
    /\ calc.bid_amount < calc.trump_winning_bid
    /\ calc.current_sum + calc.bid_amount = 13
    /\ calc.result = "Trump winner must bid at least winning bid"

\* C14: validate_trump_bid accepts exactly when minimum_bid <= amount <= 13
\* and there is no highest bid or the bid strictly outranks it; it rejects
\* as below-minimum whenever amount < minimum_bid, else as above-maximum
\* whenever amount > 13, else as must-outbid.
C14_TrumpBidValid ==
    calc.fn = "validate_trump_bid" =>
      LET a == calc.new_bid_amount
          h == calc.current_highest
          outranks == \/ h = NoBid
                      \/ a > h.amount
                      \/ (a = h.amount
                            /\ RankOf(calc.new_bid_suit) > RankOf(h.suit))
      IN  /\ calc.result = Ok <=> (calc.minimum_bid <= a /\ a <= 13 /\ outranks)
          /\ a < calc.minimum_bid
               => calc.result = "Bid must be at least minimum"
          /\ (a >= calc.minimum_bid /\ a > 13)
               => calc.result = "Bid cannot exceed 13"
          /\ (a >= calc.minimum_bid /\ a <= 13 /\ ~outranks)
               => calc.result \in
                    {"Must bid higher or same amount with higher suit",
                     "Must bid at least current highest"}

\* C14 witness: a bid of the standing bid's amount was accepted on its suit.
C14_Witness ==
    /\ calc.fn = "validate_trump_bid"
    /\ calc.current_highest # NoBid
    /\ calc.new_bid_amount = calc.current_highest.amount
    /\ calc.current_highest.suit = "hearts"
    /\ calc.new_bid_suit = "spades"
    /\ calc.result = Ok

\* C15: get_minimum_bid(n) is 5, 6, 7, 8 for n = 0, 1, 2, 3 and 8 for every
\* n > 3.
C15_MinimumBidProgression ==
    calc.fn = "get_minimum_bid" =>
      calc.result = CASE calc.frisch_count = 0 -> 5
                      [] calc.frisch_count = 1 -> 6
                      [] calc.frisch_count = 2 -> 7
                      [] OTHER                 -> 8

\* C15 witness: get_minimum_bid returned 8 for a frisch count above 3.
C15_Witness ==
    /\ calc.fn = "get_minimum_bid"
    /\ calc.frisch_count > 3
    /\ calc.result = 8

\* C16: on 4 contract bids determine_game_type returns over iff the sum is
\* above 13, under iff it is below 13, and fails iff it equals 13.
C16_GameType ==
    (calc.fn = "determine_game_type" /\ Len(calc.contract_list) = 4) =>
      LET c     == calc.contract_list
          total == c[1] + c[2] + c[3] + c[4]
      IN  /\ calc.result = "over" <=> total > 13
          /\ calc.result = "under" <=> total < 13
          /\ calc.result \notin GameType <=> total = 13

\* C16 witness: determine_game_type failed on [5, 5, 3, 0].
C16_Witness ==
    /\ calc.fn = "determine_game_type"
    /\ calc.contract_list = <<5, 5, 3, 0>>
    /\ calc.result = "ValueError: sum equals 13"

C18_ZeroBidScore ==
    (calc.fn = "calculate_round_score" /\ calc.contract_bid = 0) =>
      LET k == calc.tricks_won
      IN  /\ k = 0 => calc.result = IF calc.game_type = "over" THEN 25 ELSE 50
          /\ k = 1 => calc.result = -50
          /\ k >= 2 => calc.result = 10 * (k - 1) - 50
          /\ k = 13 => calc.result = 70

\* C18 witness: a zero bid with 13 tricks won scored +70.
C18_Witness ==
    /\ calc.fn = "calculate_round_score"
    /\ calc.contract_bid = 0
    /\ calc.tricks_won = 13
    /\ calc.result = 70

\* The round of test_full_round_under_game has been scored.
UnderRoundScored ==
    /\ calc.fn = "score_round"
    /\ calc.contract_list = <<3, 3, 3, 3>>
    /\ calc.tricks_won = <<3, 2, 3, 5>>

C20_GameTypeIndependent ==
    (/\ calc.fn = "calculate_round_score"
     /\ ~(calc.contract_bid = 0 /\ calc.tricks_won = 0)) =>
      \A g \in GameType :
        calculate_round_score(calc.contract_bid, calc.tricks_won, g) = calc.result

\* C20 witness: a zero bid failed by one trick was scored in an over game.
C20_Witness ==
    /\ calc.fn = "calculate_round_score"
    /\ calc.contract_bid = 0
    /\ calc.tricks_won = 1
    /\ calc.game_type = "over"
    /\ calc.result = -50

(* ---------------------------------------------------------------------- *)
(* Properties of concurrent requests (under SpecRace)                      *)
(* ---------------------------------------------------------------------- *)

\* Both requests have returned.
RaceDone == DOMAIN reqs = 1..2 /\ \A i \in 1..2 : reqs[i].pc = "done"

\* The request is a pass, or a bid that is valid on the round data it read.
ValidOnRead(r) ==
    \/ r.op = "pass_trump_bid"
    \/ validate_trump_bid(r.amount, r.suit, r.round_data.highest_bid,
                          r.round_data.minimum_bid) = Ok

C27_PassesConsistent ==
    [][\A i \in 1..2 :
         (reqs[i].pc = "validated" /\ reqs'[i].pc = "done") =>
           IF reqs[i].op = "pass_trump_bid"
           THEN round'.consecutive_passes = round.consecutive_passes + 1
           ELSE round'.consecutive_passes = 0]_vars

(* ---------------------------------------------------------------------- *)
(* Properties of handle_frisch (under Spec)                                *)
(* ---------------------------------------------------------------------- *)

\* C29: handle_frisch on a round with frisch_count = n < 3 succeeds, sets
\* frisch_count to n + 1 and minimum_bid to 6, 7, 8 for n + 1 = 1, 2, 3,
\* clears highest_bid, sets consecutive_passes to 0 and changes no other
\* field of the round and no contract.
C29_FrischEffect ==
    [][(last'.op = "handle_frisch" /\ round.exists /\ round.frisch_count < 3)
       => /\ last'.err = Ok
          /\ round' = [round EXCEPT
                         !.frisch_count = round.frisch_count + 1,
                         !.minimum_bid = 5 + (round.frisch_count + 1),
                         !.highest_bid = NoBid,
                         !.consecutive_passes = 0]
          /\ contracts' = contracts]_vars

\* C29 witness: a third frisch has been granted on a round whose trump
\* fields and contracts were set: the minimum is 8, the bid is cleared and
\* those fields are still there.
C29_Witness ==
    /\ last.op = "handle_frisch"
    /\ last.err = Ok
    /\ round.frisch_count = 3
    /\ round.minimum_bid = 8
    /\ round.highest_bid = NoBid
    /\ round.consecutive_passes = 0
    /\ round.phase = "contract_bidding"
    /\ round.current_bidder_id = "u0"
    /\ DOMAIN contracts # {}

\* C30: handle_frisch on a round whose frisch_count is already 3 fails with
\* the maximum-frisch error and changes no field of the round and no
\* contract; frisch_count never exceeds 3.
C30_MaxFrisch ==
    /\ [][(last'.op = "handle_frisch" /\ round.exists /\ round.frisch_count >= 3)
          => /\ last'.err = "Maximum frisch rounds (3) reached"
             /\ round' = round
             /\ contracts' = contracts]_vars
    /\ [](round.frisch_count <= 3)

\* C30 witness: a frisch has been refused on a round that had 3, with a
\* standing bid still in place.
C30_Witness ==
    /\ last.op = "handle_frisch"
    /\ last.err = "Maximum frisch rounds (3) reached"
    /\ round.frisch_count = 3
    /\ round.highest_bid # NoBid

(* ---------------------------------------------------------------------- *)
(* Properties of trick tracking (under SpecTricks)                         *)
(* ---------------------------------------------------------------------- *)

\* C21: in every reachable round state the tricks won summed over the 4
\* seats equal the total tricks played, which never exceeds 13; a round
\* with 13 tricks played is complete; and a trick claim at 13 tricks played
\* is rejected and changes nothing.
C21_TrickSum ==
    /\ [](/\ tricks.tricks_won[0] + tricks.tricks_won[1]
               + tricks.tricks_won[2] + tricks.tricks_won[3]
                 = tricks.total_tricks_played
          /\ tricks.total_tricks_played <= 13
          /\ tricks.total_tricks_played = 13 => tricks.phase = "complete")
    /\ [][(last'.op = "claimTrick" /\ tricks.total_tricks_played = 13)
          => (last'.err = "ROUND_COMPLETE" /\ tricks' = tricks)]_vars

\* C21 witness: a trick claim has been refused on a complete round of 13
\* tricks shared among the seats.
C21_Witness ==
    /\ last.op = "claimTrick"
    /\ last.err = "ROUND_COMPLETE"
    /\ tricks.total_tricks_played = 13
    /\ tricks.phase = "complete"
    /\ tricks.tricks_won = [seat \in Seats |->
                              IF seat = 3 THEN 5 ELSE IF seat = 1 THEN 2 ELSE 3]

(* ---------------------------------------------------------------------- *)
(* Properties of rooms                                                     *)
(* ---------------------------------------------------------------------- *)

\* The users seated in the room state (the players hash).
SeatedUsers(c) == {players[c][seat].user_id : seat \in OccupiedSeats(c)}

\* The seats held by rows of the game.
TakenSeats(c) == {db_players[c][v].seat_position : v \in DOMAIN db_players[c]}

\* The lowest seat outside the set, if any, is the given seat.
LowestFree(seat, taken) ==
    /\ seat \in Seats \ taken
    /\ \A other \in Seats \ taken : seat <= other

\* C22 (under SpecRoomWs): a player with a grace-period entry for a room
\* with an active game who rejoins that room is accepted and gets the seat
\* of the entry, held by them and marked connected.
C22_Reconnection ==
    [][(/\ last'.op = "RoomManager.join_room"
        /\ reconnect[last'.user] # NoReconnect
        /\ reconnect[last'.user].room_code = last'.room
        /\ rooms[last'.room].exists
        /\ rooms[last'.room].status # "waiting")
       => (/\ last'.err = Ok
           /\ last'.seat = reconnect[last'.user].seat_position
           /\ players'[last'.room][last'.seat].user_id = last'.user
           /\ players'[last'.room][last'.seat].is_connected)]_vars

C24_AdminInvariant ==
    \A c \in DOMAIN rooms :
        (rooms[c].exists /\ rooms[c].status # "waiting") =>
            /\ Cardinality({seat \in OccupiedSeats(c) : players[c][seat].is_admin}) = 1
            /\ \A seat \in OccupiedSeats(c) :
                  players[c][seat].is_admin => players[c][seat].user_id = rooms[c].admin_id

C26_UpdateSeating ==
    [][(last'.op = "update_seating" /\ rooms[last'.room].exists)
       => \A positions \in SeatingLists :
            update_seating(last'.room, last'.user, positions) =>
              LET c == last'.room
                  members == {positions[i] : i \in 1..Len(positions)}
                  exact == members = SeatedUsers(c) /\ members = DOMAIN db_players[c]
              IN  /\ (last'.user = rooms[c].admin_id /\ exact /\ Cardinality(members) = 4)
                     => \A i \in Seats : players'[c][i].user_id = positions[i + 1]
                  /\ (last'.user # rooms[c].admin_id
                      \/ (members # SeatedUsers(c) /\ members # DOMAIN db_players[c]))
                     => /\ last'.err # Ok
                        /\ players' = players
                        /\ db_players' = db_players]_vars

(* ---------------------------------------------------------------------- *)
(* Properties of the round state, continued                                *)
(* ---------------------------------------------------------------------- *)

\* C31 (under Spec): in every reachable round state frisch_count is one of
\* 0, 1, 2, 3 and minimum_bid is the entry of 5, 6, 7, 8 at frisch_count,
\* hence within 5..8.
C31_FrischMinimum ==
    /\ round.frisch_count \in 0 .. 3
    /\ round.minimum_bid = <<5, 6, 7, 8>>[round.frisch_count + 1]
    /\ round.minimum_bid \in 5 .. 8

\* C31 witness: the third frisch has been handled and the minimum bid is 8.
C31_Witness ==
    /\ last.op = "handle_frisch"
    /\ last.err = Ok
    /\ round.frisch_count = 3
    /\ round.minimum_bid = 8

\* The place of a phase in the order of RoundPhase; 0 when there is no
\* round state.
PhaseRank(phase) ==
    CASE phase = "trump_bidding"    -> 1
      [] phase = "contract_bidding" -> 2
      [] phase = "playing"          -> 3
      [] phase = "complete"         -> 4
      [] OTHER                      -> 0

\* C32 (under Spec): a round's phase changes only to the next phase of
\* trump_bidding, contract_bidding, playing, complete, starting with
\* trump_bidding, and a complete round is not changed.
C32_PhaseOrder ==
    [][/\ round'.phase # round.phase
            => PhaseRank(round'.phase) = PhaseRank(round.phase) + 1
       /\ round.phase = "complete" => round' = round]_vars

(* ---------------------------------------------------------------------- *)
(* Properties of rooms, continued                                          *)
(* ---------------------------------------------------------------------- *)

\* C33 (under SpecRoomHttp): start_game on a room whose status is not
\* waiting does not succeed and leaves the status and the round number as
\* they were.
C33_StartOnlyFromWaiting ==
    [][(/\ last'.op = "start_game"
        /\ rooms[last'.room].exists
        /\ rooms[last'.room].status # "waiting")
       => (/\ last'.err # Ok
           /\ rooms'[last'.room].status = rooms[last'.room].status
           /\ games'[last'.room].status = games[last'.room].status
           /\ games'[last'.room].current_round_number
                 = games[last'.room].current_round_number)]_vars

\* C34 (under SpecGameStart): when the first bidder named by a successful
\* start_game bids or passes next, the round state is the fresh one
\* (current bidder the player of seat 0, minimum_bid 5, frisch_count 0, no
\* highest bid, consecutive_passes 0, phase trump_bidding) and the bid or
\* pass is accepted.
C34_RoundAfterStart ==
    [][(/\ last.op = "start_game"
        /\ last.err = Ok
        /\ last'.op \in {"place_trump_bid", "pass_trump_bid"}
        /\ last'.user = last.first_bidder_id)
       => (/\ round = BiddingState(last.first_bidder_id)
           /\ last'.err = Ok)]_vars

\* C35 (under SpecRoomSeat): no user occupies two seats of a room, and a
\* join that succeeds takes a seat that was empty or already the joining
\* user's own.
C35_SeatsConsistent ==
    /\ [](\A c \in DOMAIN rooms : \A s1 \in OccupiedSeats(c), s2 \in OccupiedSeats(c) :
             players[c][s1].user_id = players[c][s2].user_id => s1 = s2)
    /\ [][(/\ last'.op \in {"RoomService.join_room", "RoomManager.join_room"}
           /\ last'.err = Ok)
          => \/ players[last'.room][last'.seat] = NoPlayer
             \/ players[last'.room][last'.seat].user_id = last'.user]_vars

\* Both join requests have returned.
JoinsDone == \A i \in DOMAIN reqs : reqs[i].pc = "done"

\* C36 (under SpecJoinRace): when two concurrent join requests of different
\* users have returned, they were not both given the same seat, and every
\* user whose join succeeded holds the seat that was returned.
C36_ConcurrentJoins ==
    JoinsDone =>
        /\ ~(/\ reqs[1].result = Ok
             /\ reqs[2].result = Ok
             /\ reqs[1].seat = reqs[2].seat)
        /\ \A i \in DOMAIN reqs :
              reqs[i].result = Ok
                 => players[BiddingRoom][reqs[i].seat].user_id = reqs[i].user

\* C37 (under SpecTwoRooms): an operation on one room leaves the record,
\* the seats, the rows and the game of every other room as they were, and
\* leaves in place every pending reconnection entry held for another room.
C37_RoomsIndependent ==
    [][last'.op \in {"RoomManager.join_room", "RoomManager.leave_room",
                     "handle_disconnect", "reconnect_expire"}
       => \A d \in DOMAIN rooms \ {last'.room} :
             /\ rooms'[d] = rooms[d]
             /\ players'[d] = players[d]
             /\ db_players'[d] = db_players[d]
             /\ games'[d] = games[d]
             /\ \A u \in DOMAIN reconnect :
                   reconnect[u].room_code = d => reconnect'[u] = reconnect[u]]_vars

\* C38 (under SpecRoomSeat): when a leave or a disconnection removes the
\* last seated player of a room, no room record, no player entry, no round
\* state and no contract bid is left for the room code.
C38_EmptyRoomDestroyed ==
    [][(/\ last'.op \in {"RoomService.leave_room", "RoomManager.leave_room",
                         "handle_disconnect"}
        /\ last'.err = Ok
        /\ last'.room \in DOMAIN rooms
        /\ OccupiedSeats(last'.room) # {}
        /\ \A seat \in Seats : players'[last'.room][seat] = NoPlayer)
       => (/\ ~rooms'[last'.room].exists
           /\ last'.room = BiddingRoom
                 => (round' = NoRound /\ contracts' = NoContracts))]_vars

C40_PassesBounded ==
    /\ round.consecutive_passes <= 4
    /\ round.highest_bid # NoBid => round.consecutive_passes <= 3

====
